---- MODULE Spec2Model ----
(***************************************************************************)
(* Model of the pchpc street simulation: the per-tick vehicle advance of   *)
(* streets/vehicles.go over the edge queues, and the column partitioner of *)
(* streets/graph.go.                                                       *)
(***************************************************************************)
EXTENDS Integers, Sequences, FiniteSets, TLC

\* ------------------------------------------------------------------ bounds
NumVehicles == 2
MaxLen == 2
MaxSpeed == 2

MaxCoord == 4
MaxY == 1
MaxN == 3
MaxEdges == 2

\* --------------------------------------------------------- program constants
NotInQueue == -1
\* Seeds of the bounding-box scan.
SeedMin == 100
SeedMax == 0

\* The road network of the vehicle model: a chain 1 -> 2 -> 3.
Vertices == {1, 2, 3}
Edges == {<<1, 2>>, <<2, 3>>}
VehicleIds == 1..NumVehicles

Nil == <<>>
NotFound == <<0, 0>>

VARIABLES
    graph,      \* Edge.Length of every edge of the Graph Store
    Q,          \* Edge.Q: the vehicle queue of every edge, front first
    vehicles,   \* the Vehicle structs
    panicked,   \* a panic has ended the process
    ticks,      \* history: number of drive() calls of each vehicle
    noops,      \* history: the last Step() was a call on a parked vehicle
    lastCase,   \* history: branch taken by the last drive() of each vehicle
    arrivals,   \* history: per edge, vehicles in order of their first enqueue
    pgraph,     \* partitioner input: the graph (vertex table and edge set)
    nparts,     \* partitioner input: n
    rects,      \* result of DivideGraphsIntoRects, <<>> before the call
    pdone,      \* DivideGraphsIntoRects has returned
    rootBox,    \* the bounding box DivideGraphsIntoRects computed, Nil before the call
    rawEdges,   \* GraphFromRect input: the edge list
    rectIn,     \* GraphFromRect input: the rect
    sub         \* result of GraphFromRect, Nil before the call

vehVars == <<graph, Q, vehicles, panicked, ticks, noops, lastCase, arrivals>>
subVars == <<rawEdges, rectIn, sub>>
partVars == <<pgraph, nparts, rects, pdone, rootBox, rawEdges, rectIn, sub>>
vars == <<graph, Q, vehicles, panicked, ticks, noops, lastCase, arrivals,
          pgraph, nparts, rects, pdone, rootBox, rawEdges, rectIn, sub>>

\* ------------------------------------------------------------ pure helpers
RECURSIVE SumSeq(_)
SumSeq(s) == IF s = <<>> THEN 0 ELSE Head(s) + SumSeq(Tail(s))

Ceil(a, b) == (a + b - 1) \div b

InSeq(s, x) == \E i \in 1..Len(s) : s[i] = x

\* Paths: vertex sequences i, i+1, ..., j of the chain (a single vertex when i = j).
Paths == {[k \in 1..(j - i + 1) |-> i + k - 1] : i \in Vertices, j \in Vertices} \ {<<>>}

\* ------------------------------------------------------------- Graph Store
GetCorrespondingEdge(g, v1, v2) ==
    IF <<v1, v2>> \in DOMAIN g THEN <<v1, v2>> ELSE NotFound

\* -------------------------------------------------------------- Edge queue
GetPosition(q, v) ==
    IF InSeq(q, v) THEN (CHOOSE i \in 1..Len(q) : q[i] = v /\ \A j \in 1..(i - 1) : q[j] # v) - 1
    ELSE NotInQueue

PushVehicle(q, v) == IF InSeq(q, v) THEN q ELSE Append(q, v)

PopVehicle(q) == Tail(q)

\* ----------------------------------------------------------------- Vehicle
\* Lengths of the edges between consecutive path vertices, in path order.
GetPathLengths(g, path) ==
    [i \in 1..(Len(path) - 1) |-> g[GetCorrespondingEdge(g, path[i], path[i + 1])]]

\* NewVehicle's loop without the zero test.
FilterNonZero_KeepAll(s) == s

RECURSIVE FilterNonZero(_)
FilterNonZero(s) ==
    IF s = <<>> THEN <<>>
    ELSE IF Head(s) # 0 THEN <<Head(s)>> \o FilterNonZero(Tail(s))
    ELSE FilterNonZero(Tail(s))

NewVehicle(path, speed, g) ==
    [Speed |-> speed,
     Path |-> path,
     PathLength |-> FilterNonZero(GetPathLengths(g, path)),
     IsParked |-> FALSE,
     CurrentEdge |-> Nil]

\* 0-based index of the first non-zero ledger entry, 0 when there is none.
NonZeroIdx(pl) ==
    IF \E i \in 1..Len(pl) : pl[i] # 0
    THEN (CHOOSE i \in 1..Len(pl) : pl[i] # 0 /\ \A j \in 1..(i - 1) : pl[j] = 0) - 1
    ELSE 0

\* GetCurrentEdge resolving the edge from the number of ledger entries already
\* merged away instead of from the first non-zero entry.
GetCurrentEdge_ByProgress(veh, g) ==
    LET merged == (Len(veh.Path) - 1) - Len(veh.PathLength)
        idx == IF merged < 0 \/ veh.PathLength = <<>> THEN 0 ELSE merged
    IN
    IF veh.IsParked THEN [panic |-> FALSE, edge |-> Nil]
    ELSE IF idx + 1 > Len(veh.Path) THEN [panic |-> FALSE, edge |-> Nil]
    ELSE IF idx + 2 > Len(veh.Path) THEN [panic |-> TRUE, edge |-> Nil]
    ELSE LET e == GetCorrespondingEdge(g, veh.Path[idx + 1], veh.Path[idx + 2]) IN
         IF e = NotFound THEN [panic |-> TRUE, edge |-> Nil]
         ELSE [panic |-> FALSE, edge |-> e]

\* Result of GetCurrentEdge: [panic |-> BOOLEAN, edge |-> edge or Nil].
GetCurrentEdge(veh, g) ==
    LET idx == NonZeroIdx(veh.PathLength) IN
    IF veh.IsParked THEN [panic |-> FALSE, edge |-> Nil]
    ELSE IF idx + 1 > Len(veh.Path) THEN [panic |-> FALSE, edge |-> Nil]
    ELSE IF idx + 2 > Len(veh.Path) THEN [panic |-> TRUE, edge |-> Nil]
    ELSE LET e == GetCorrespondingEdge(g, veh.Path[idx + 1], veh.Path[idx + 2]) IN
         IF e = NotFound THEN [panic |-> TRUE, edge |-> Nil]
         ELSE [panic |-> FALSE, edge |-> e]

Back(pl) == pl[Len(pl)]
PopBack(pl) == SubSeq(pl, 1, Len(pl) - 1)

\* DriveCase with the arrival branch taken on the last entry whatever is left of it.
DriveCase_ArriveEarly(q, speed) ==
    IF Back(q) <= speed /\ Len(q) > 1 THEN "A"
    ELSE IF Len(q) = 1 THEN "B"
    ELSE "C"

\* The branch of drive() taken on ledger q: "A" merge, "B" arrival, "C" progress.
DriveCase(q, speed) ==
    IF Back(q) <= speed /\ Len(q) > 1 THEN "A"
    ELSE IF Back(q) <= speed /\ Len(q) = 1 THEN "B"
    ELSE "C"

\* Advance consuming the speed twice.
Advance_Twice(q, speed) == Append(PopBack(q), Back(q) - 2 * speed)

\* The ledger after each branch.
Merge(q) == Append(PopBack(PopBack(q)), Back(q) + Back(PopBack(q)))
Advance(q, speed) == Append(PopBack(q), Back(q) - speed)

\* drive(): one tick of a vehicle that is not parked.
drive(v) ==
    LET veh == vehicles[v]
        r == GetCurrentEdge(veh, graph)
        e == r.edge
        q == veh.PathLength
    IN
    /\ ticks' = [ticks EXCEPT ![v] = @ + 1]
    /\ noops' = FALSE
    /\ UNCHANGED <<graph, partVars>>
    /\ IF r.panic
       THEN \* GetCurrentEdge panicked before CurrentEdge was assigned
            /\ panicked' = TRUE
            /\ lastCase' = [lastCase EXCEPT ![v] = "panic"]
            /\ UNCHANGED <<Q, vehicles, arrivals>>
       ELSE IF e = Nil
       THEN \* method call on the nil edge
            /\ panicked' = TRUE
            /\ vehicles' = [vehicles EXCEPT ![v].CurrentEdge = Nil]
            /\ lastCase' = [lastCase EXCEPT ![v] = "panic"]
            /\ UNCHANGED <<Q, arrivals>>
       ELSE LET entered == GetPosition(Q[e], v) = NotInQueue
                Q1 == IF entered THEN [Q EXCEPT ![e] = PushVehicle(@, v)] ELSE Q
                arr1 == IF entered /\ ~InSeq(arrivals[e], v)
                        THEN [arrivals EXCEPT ![e] = Append(@, v)] ELSE arrivals
            IN
            /\ arrivals' = arr1
            /\ IF Len(q) = 0
               THEN \* Back() of the empty deque panics
                    /\ panicked' = TRUE
                    /\ Q' = Q1
                    /\ vehicles' = [vehicles EXCEPT ![v].CurrentEdge = e]
                    /\ lastCase' = [lastCase EXCEPT ![v] = "panic"]
               ELSE IF DriveCase(q, veh.Speed) = "A"
               THEN /\ vehicles' = [vehicles EXCEPT
                            ![v].CurrentEdge = e,
                            ![v].PathLength = Merge(q)]
                    /\ Q' = Q1
                    /\ lastCase' = [lastCase EXCEPT ![v] = "A"]
                    /\ UNCHANGED panicked
               ELSE IF DriveCase(q, veh.Speed) = "B"
               THEN /\ vehicles' = [vehicles EXCEPT
                            ![v].CurrentEdge = e,
                            ![v].PathLength = PopBack(q),
                            ![v].IsParked = TRUE]
                    /\ Q' = [Q1 EXCEPT ![e] = PopVehicle(@)]
                    /\ lastCase' = [lastCase EXCEPT ![v] = "B"]
                    /\ UNCHANGED panicked
               ELSE /\ vehicles' = [vehicles EXCEPT
                            ![v].CurrentEdge = e,
                            ![v].PathLength = Advance(q, veh.Speed)]
                    /\ Q' = Q1
                    /\ lastCase' = [lastCase EXCEPT ![v] = "C"]
                    /\ UNCHANGED panicked

\* Step without the parked check.
Step_NoParkedCheck(v) ==
    /\ ~panicked
    /\ drive(v)

\* Step marking a vehicle with an empty ledger parked instead of driving it.
Step_ParkOnEmptyLedger(v) ==
    /\ ~panicked
    /\ IF vehicles[v].IsParked
       THEN /\ noops' = TRUE
            /\ UNCHANGED <<graph, Q, vehicles, panicked, ticks, lastCase, arrivals, partVars>>
       ELSE IF vehicles[v].PathLength = <<>>
       THEN /\ vehicles' = [vehicles EXCEPT ![v].IsParked = TRUE]
            /\ ticks' = [ticks EXCEPT ![v] = @ + 1]
            /\ noops' = FALSE
            /\ UNCHANGED <<graph, Q, panicked, lastCase, arrivals, partVars>>
       ELSE drive(v)

\* Step(): the caller ticks vehicle v.
Step(v) ==
    /\ ~panicked
    /\ IF vehicles[v].IsParked
       THEN /\ noops' = TRUE
            /\ UNCHANGED <<graph, Q, vehicles, panicked, ticks, lastCase, arrivals, partVars>>
       ELSE drive(v)

\* ------------------------------------------------------------- Partitioner
\* The vertex table of the partitioner's graph and the edge sets it may carry.
\* Every graph has an edge, so the scan replaces its seeds by coordinates.
PVertexIds == {1, 2, 3}
PEdgeSets == (SUBSET {<<1, 2>>, <<2, 3>>}) \ {{}}

\* float64 arithmetic.  Coordinates of the model are the float64 values k * u,
\* u the smallest positive float64 and 0 <= k <= MaxCoord, written as k.  On
\* such values sums, differences and products by a small integer are exact and
\* a quotient is rounded to the nearest multiple of u, ties to even.
FAdd(a, b) == a + b
FSub(a, b) == a - b
FMul(a, b) == a * b
FDiv(a, b) ==
    LET m == IF a < 0 THEN -a ELSE a
        fl == m \div b
        r == m % b
        res == IF 2 * r > b \/ (2 * r = b /\ fl % 2 = 1) THEN fl + 1 ELSE fl
    IN IF a < 0 THEN -res ELSE res

\* GetVertices returning the whole vertex table.
GetVertices_AllVertices(g) == {g.vertices[k] : k \in DOMAIN g.vertices}

\* GetVertices: the vertices that are an endpoint of some edge.
GetVertices(g) ==
    {g.vertices[k] : k \in {e[1] : e \in g.edges} \cup {e[2] : e \in g.edges}}

\* The running minimum / maximum of the scan, started at its seed.
ScanMin(S, seed) ==
    IF \E x \in S : x < seed THEN CHOOSE x \in S : \A y \in S : x <= y ELSE seed
ScanMax(S, seed) ==
    IF \E x \in S : x > seed THEN CHOOSE x \in S : \A y \in S : x >= y ELSE seed

GetTopRightBottomLeftVertices(g) ==
    LET vs == GetVertices(g) IN
    [bot |-> [X |-> ScanMin({v.X : v \in vs}, SeedMin), Y |-> ScanMin({v.Y : v \in vs}, SeedMin)],
     top |-> [X |-> ScanMax({v.X : v \in vs}, SeedMax), Y |-> ScanMax({v.Y : v \in vs}, SeedMax)]]

\* The membership test of a strip with a half-open x-interval.
InStrip_HalfOpen(v, botX, topX, rootBot, rootTop) ==
    /\ v.Y >= rootBot.Y /\ v.Y <= rootTop.Y
    /\ v.X >= botX /\ v.X < topX

\* The membership test of a strip: isInYInterval && isInXInterval.
InStrip(v, botX, topX, rootBot, rootTop) ==
    /\ v.Y >= rootBot.Y /\ v.Y <= rootTop.Y
    /\ v.X >= botX /\ v.X <= topX

\* DivideGraphsIntoRects: rects[i + 1] of the model is rects[i] of the code.
DivideGraphsIntoRects(n, g) ==
    LET box == GetTopRightBottomLeftVertices(g)
        rootBot == box.bot
        rootTop == box.top
        vs == GetVertices(g)
        xDelta == FSub(rootTop.X, rootBot.X)
    IN
    [k \in 1..n |->
        LET botX == FAdd(rootBot.X, FMul(FDiv(xDelta, n), k - 1))
            topX == FAdd(rootBot.X, FMul(FDiv(xDelta, n), k))
        IN
        [TopRight |-> [X |-> topX, Y |-> rootTop.Y],
         BotLeft |-> [X |-> botX, Y |-> rootBot.Y],
         Vertices |-> {v \in vs : InStrip(v, botX, topX, rootBot, rootTop)}]]

\* The caller partitions the graph.
Divide ==
    /\ ~pdone
    /\ rects' = DivideGraphsIntoRects(nparts, pgraph)
    /\ rootBox' = GetTopRightBottomLeftVertices(pgraph)
    /\ pdone' = TRUE
    /\ UNCHANGED <<pgraph, nparts, vehVars, subVars>>

\* --------------------------------------------------- induced subgraph
\* The graph library: a graph is [directed, vertices (ids), edges (pairs as
\* added)].  An undirected graph finds the edge a-b under both (a, b) and (b, a).
NewGraphValue(directed) == [directed |-> directed, vertices |-> {}, edges |-> {}]

HasEdge(g, s, t) ==
    \/ <<s, t>> \in g.edges
    \/ ~g.directed /\ <<t, s>> \in g.edges

\* AddVertex: an id already present is refused, the graph is unchanged.
AddVertex(g, v) == [g EXCEPT !.vertices = @ \cup {v.ID}]

\* AddEdge: refused when an endpoint is no vertex or the edge already exists.
AddEdge(g, s, t) ==
    IF s \notin g.vertices \/ t \notin g.vertices THEN g
    ELSE IF HasEdge(g, s, t) THEN g
    ELSE [g EXCEPT !.edges = @ \cup {<<s, t>>}]

\* Rect.InRect: some vertex of the rect has the id of v.
InRect(r, v) == \E x \in r.Vertices : x.ID = v.ID

\* The first loop of GraphFromRect: every vertex of the rect is added.
RECURSIVE AddRectVertices(_, _)
AddRectVertices(g, vs) ==
    IF vs = {} THEN g
    ELSE LET v == CHOOSE x \in vs : TRUE IN AddRectVertices(AddVertex(g, v), vs \ {v})

\* The second loop of GraphFromRect, over the edge list in order.
RECURSIVE AddRectEdges(_, _, _)
AddRectEdges(g, edges, rect) ==
    IF edges = <<>> THEN g
    ELSE LET src == Head(edges)[1]
             dst == Head(edges)[2]
             srcInRect == \E vertex \in rect.Vertices : vertex.ID = src
             dstInRect == \E vertex \in rect.Vertices : vertex.ID = dst
         IN AddRectEdges(IF srcInRect /\ dstInRect THEN AddEdge(g, src, dst) ELSE g,
                         Tail(edges), rect)

\* GraphFromRect adding the endpoints of every edge as vertices and every edge.
RECURSIVE AddAllEdges(_, _)
AddAllEdges(g, edges) ==
    IF edges = <<>> THEN g
    ELSE LET src == Head(edges)[1]
             dst == Head(edges)[2]
             g1 == AddVertex(AddVertex(g, [ID |-> src]), [ID |-> dst])
         IN AddAllEdges(AddEdge(g1, src, dst), Tail(edges))
GraphFromRect_NoFilter(edges, rect) ==
    AddAllEdges(AddRectVertices(NewGraphValue(FALSE), rect.Vertices), edges)

\* GraphFromRect: graph.New without the Directed option is undirected.
GraphFromRect(edges, rect) ==
    AddRectEdges(AddRectVertices(NewGraphValue(FALSE), rect.Vertices), edges, rect)

\* The caller builds the subgraph of the rect.
Subgraph ==
    /\ sub = Nil
    /\ sub' = GraphFromRect(rawEdges, rectIn)
    /\ UNCHANGED <<rawEdges, rectIn, pgraph, nparts, rects, pdone, rootBox, vehVars>>

\* ------------------------------------------------------------ specification
\* Vehicles are interchangeable: the initial fleets are listed once, in
\* non-decreasing order of (origin, path length, speed).
VehicleRank(veh) ==
    (veh.Path[1] * (Cardinality(Vertices) + 1) + Len(veh.Path)) * (MaxSpeed + 1) + veh.Speed

InitVehicles ==
    /\ graph \in [Edges -> 0..MaxLen]
    /\ Q = [e \in Edges |-> <<>>]
    /\ \E paths \in [VehicleIds -> Paths], speeds \in [VehicleIds -> 1..MaxSpeed] :
          /\ vehicles = [v \in VehicleIds |-> NewVehicle(paths[v], speeds[v], graph)]
          /\ \A v, w \in VehicleIds : v < w => VehicleRank(vehicles[v]) <= VehicleRank(vehicles[w])
    /\ panicked = FALSE
    /\ ticks = [v \in VehicleIds |-> 0]
    /\ noops = FALSE
    /\ lastCase = [v \in VehicleIds |-> "none"]
    /\ arrivals = [e \in Edges |-> <<>>]

InitPartitioner ==
    /\ \E xs \in [PVertexIds -> 0..MaxCoord], ys \in [PVertexIds -> 0..MaxY], es \in PEdgeSets :
          pgraph = [vertices |-> [k \in PVertexIds |-> [ID |-> k, X |-> xs[k], Y |-> ys[k]]],
                    edges |-> es]
    /\ nparts \in 1..MaxN
    /\ rects = <<>>
    /\ pdone = FALSE
    /\ rootBox = Nil

\* The vertices a rect may hold, and the edge lists of at most MaxEdges edges.
RectVertices == {[ID |-> k, X |-> k, Y |-> 0] : k \in PVertexIds}
RawEdgeLists == UNION {[1..n -> PVertexIds \X PVertexIds] : n \in 0..MaxEdges}

InitSubgraph ==
    /\ rawEdges \in RawEdgeLists
    /\ \E vs \in SUBSET RectVertices :
          rectIn = [TopRight |-> [X |-> MaxCoord, Y |-> 0], BotLeft |-> [X |-> 0, Y |-> 0],
                    Vertices |-> vs]
    /\ sub = Nil

IdlePartitioner ==
    /\ pgraph = [vertices |-> [k \in PVertexIds |-> [ID |-> k, X |-> 0, Y |-> 0]],
                 edges |-> {<<1, 2>>}]
    /\ nparts = 1
    /\ rects = <<>>
    /\ pdone = FALSE
    /\ rootBox = Nil

IdleSubgraph ==
    /\ rawEdges = <<>>
    /\ rectIn = [TopRight |-> [X |-> 0, Y |-> 0], BotLeft |-> [X |-> 0, Y |-> 0], Vertices |-> {}]
    /\ sub = Nil

IdleVehicles ==
    /\ graph = [e \in Edges |-> 1]
    /\ Q = [e \in Edges |-> <<>>]
    /\ vehicles = [v \in VehicleIds |-> NewVehicle(<<1, 2>>, 1, graph)]
    /\ panicked = FALSE
    /\ ticks = [v \in VehicleIds |-> 0]
    /\ noops = FALSE
    /\ lastCase = [v \in VehicleIds |-> "none"]
    /\ arrivals = [e \in Edges |-> <<>>]

\* The tick loop: the partitioner is idle.
Init ==
    /\ InitVehicles
    /\ IdlePartitioner
    /\ IdleSubgraph

Next == \E v \in VehicleIds : Step(v)

Spec == Init /\ [][Next]_vars

\* The partitioner: no vehicle is ticked.
InitRects ==
    /\ InitPartitioner
    /\ IdleVehicles
    /\ IdleSubgraph

NextRects == Divide

SpecRects == InitRects /\ [][NextRects]_vars

\* The induced subgraph of a rect: nothing else runs.
InitSub ==
    /\ InitSubgraph
    /\ IdleVehicles
    /\ IdlePartitioner

NextSub == Subgraph

SpecSub == InitSub /\ [][NextSub]_vars

\* The tick loop under a caller that keeps ticking every vehicle.
SpecFair == Spec /\ \A v \in VehicleIds : WF_vars(Step(v))

\* ------------------------------------------------------- claim vocabulary
PathEdges(path) == [i \in 1..(Len(path) - 1) |-> <<path[i], path[i + 1]>>]

\* The path has one or more edges, all of positive length.
PositivePath(v) ==
    /\ Len(vehicles[v].Path) >= 2
    /\ \A i \in 1..(Len(vehicles[v].Path) - 1) : graph[PathEdges(vehicles[v].Path)[i]] > 0

TotalLength(v) == SumSeq(GetPathLengths(graph, vehicles[v].Path))

MinTicks(v) == Ceil(TotalLength(v), vehicles[v].Speed)

InQueue(e, v) == InSeq(Q[e], v)

\* Number of queue slots, over all edges, that hold vehicle v.
Occurrences(v) ==
    Cardinality({<<e, i>> \in Edges \X (1..NumVehicles) : i <= Len(Q[e]) /\ Q[e][i] = v})

\* The edge that follows edge e on the path, Nil when e is the last one.
NextEdge(path, e) ==
    IF \E i \in 1..(Len(path) - 2) : PathEdges(path)[i] = e
    THEN PathEdges(path)[(CHOOSE i \in 1..(Len(path) - 2) : PathEdges(path)[i] = e) + 1]
    ELSE Nil

\* Vehicle v drives a single edge of positive length that is on no other vehicle's path.
Alone(v) ==
    /\ Len(vehicles[v].Path) = 2
    /\ graph[PathEdges(vehicles[v].Path)[1]] > 0
    /\ \A w \in VehicleIds \ {v} :
          \A i \in 1..(Len(vehicles[w].Path) - 1) :
              PathEdges(vehicles[w].Path)[i] # PathEdges(vehicles[v].Path)[1]

OnlyEdge(v) == PathEdges(vehicles[v].Path)[1]

\* ------------------------------------------------------------------ claims
\* C1: a parked vehicle is present in no edge queue (the arrival branch
\* removes the arriving vehicle itself from the queue of its current edge).
C1_ParkedInNoQueue ==
    \A v \in VehicleIds : vehicles[v].IsParked => \A e \in Edges : ~InQueue(e, v)

\* C2: the Step() that follows a Case A step resolves CurrentEdge to the next
\* edge of the path and puts the vehicle at the back of that edge's queue.
C2_EntersFollowingEdge ==
    [][\A v \in VehicleIds :
          (lastCase[v] = "A" /\ Step(v) /\ ticks'[v] = ticks[v] + 1) =>
              LET nxt == NextEdge(vehicles[v].Path, vehicles[v].CurrentEdge) IN
              /\ nxt # Nil
              /\ vehicles'[v].CurrentEdge = nxt
              /\ Q'[nxt] # <<>>
              /\ Back(Q'[nxt]) = v]_vars

\* C3: a vehicle on a path of positive-length edges is parked no later than
\* after its ceil(sum of lengths / speed)-th Step().
C3_ParkedWithinCeil ==
    \A v \in VehicleIds :
        (PositivePath(v) /\ ticks[v] >= MinTicks(v)) => vehicles[v].IsParked

\* C4: a vehicle on a path of positive-length edges is never parked after
\* fewer than ceil(sum of lengths / speed) Step() calls.
C4_NeverParkedEarlier ==
    \A v \in VehicleIds :
        (PositivePath(v) /\ vehicles[v].IsParked) => ticks[v] >= MinTicks(v)

\* A two-edge path has been driven to the end, later than the lower bound.
C4_Witness ==
    \E v \in VehicleIds :
        /\ PositivePath(v) /\ Len(vehicles[v].Path) = 3
        /\ vehicles[v].IsParked /\ ticks[v] > MinTicks(v)

\* C5: every vehicle occupies at most one slot of all the edge queues.
C5_AtMostOneQueueSlot == \A v \in VehicleIds : Occurrences(v) <= 1

\* A vehicle that was removed by another vehicle's arrival has entered the
\* queue again, behind the parked vehicle that is still in it.
C5_Witness ==
    \E v, w \in VehicleIds, e \in Edges :
        /\ v # w /\ vehicles[w].IsParked /\ Q[e] = <<w, v>>
        /\ GetPosition(arrivals[e], v) < GetPosition(arrivals[e], w)

\* C6: of two vehicles in one edge's queue, the one first enqueued on that
\* edge earlier stands nearer the front.
C6_QueueOrderIsArrivalOrder ==
    \A e \in Edges : \A a, b \in VehicleIds :
        (/\ InQueue(e, a) /\ InQueue(e, b)
         /\ GetPosition(arrivals[e], a) < GetPosition(arrivals[e], b))
        => GetPosition(Q[e], a) < GetPosition(Q[e], b)

\* C7 (state part): alone on one edge of length L at speed s, after k < ceil(L/s)
\* ticks the ledger is <<L - k*s>> and the vehicle is not parked; after
\* ceil(L/s) ticks the ledger is empty and the vehicle is parked.
C7_Ledger(v) ==
    LET L == graph[OnlyEdge(v)]
        s == vehicles[v].Speed
    IN IF ticks[v] < Ceil(L, s)
       THEN vehicles[v].PathLength = <<L - ticks[v] * s>> /\ ~vehicles[v].IsParked
       ELSE vehicles[v].PathLength = <<>> /\ vehicles[v].IsParked /\ ticks[v] = Ceil(L, s)

\* C7 as claimed: the parking tick shortens the edge's queue by exactly 1.
C7_ParkingTickShortensQueue ==
    /\ [](\A v \in VehicleIds : Alone(v) => C7_Ledger(v))
    /\ [][\A v \in VehicleIds :
            (Alone(v) /\ ~vehicles[v].IsParked /\ vehicles'[v].IsParked) =>
                Len(Q'[OnlyEdge(v)]) = Len(Q[OnlyEdge(v)]) - 1]_vars

\* C7 amended: the parking tick shortens the queue by exactly 1 when the
\* vehicle entered the queue on an earlier tick (ceil(L/s) >= 2); when the
\* first tick is the parking tick the vehicle is enqueued and removed within
\* it and the queue is empty before and after.
C7_ParkingTick ==
    /\ [](\A v \in VehicleIds : Alone(v) => C7_Ledger(v))
    /\ [][\A v \in VehicleIds :
            (Alone(v) /\ ~vehicles[v].IsParked /\ vehicles'[v].IsParked) =>
                IF ticks[v] >= 1
                THEN Len(Q'[OnlyEdge(v)]) = Len(Q[OnlyEdge(v)]) - 1
                ELSE Q[OnlyEdge(v)] = <<>> /\ Q'[OnlyEdge(v)] = <<>>]_vars

\* A vehicle alone on its edge has parked on its second or a later tick.
C7_Witness ==
    \E v \in VehicleIds :
        Alone(v) /\ vehicles[v].IsParked /\ ticks[v] >= 2 /\ Q[OnlyEdge(v)] = <<>>

\* C8: Step() of a parked vehicle changes no vehicle and no queue, and a
\* parked vehicle stays parked.
C8_ParkedStepIsNoOp ==
    [][/\ \A v \in VehicleIds :
            (vehicles[v].IsParked /\ Step(v)) => (vehicles' = vehicles /\ Q' = Q)
       /\ \A v \in VehicleIds : vehicles[v].IsParked => vehicles'[v].IsParked]_vars

\* Step() has been called on a parked vehicle.
C8_Witness == noops /\ \E v \in VehicleIds : vehicles[v].IsParked

\* C9: on a path with at least one edge the ledger is empty only when the
\* vehicle is parked.
C9_EmptyLedgerOnlyWhenParked ==
    \A v \in VehicleIds :
        (Len(vehicles[v].Path) >= 2 /\ vehicles[v].PathLength = <<>>) => vehicles[v].IsParked

\* C10: DivideGraphsIntoRects returns n rects, contiguous in x, from botX to
\* topX exactly, each over the y-range of the bounding box.
C10_StripsSpanBoundingBox ==
    pdone =>
        LET box == GetTopRightBottomLeftVertices(pgraph) IN
        /\ Len(rects) = nparts
        /\ \A i \in 1..(nparts - 1) : rects[i].TopRight.X = rects[i + 1].BotLeft.X
        /\ rects[1].BotLeft.X = box.bot.X
        /\ rects[nparts].TopRight.X = box.top.X
        /\ \A i \in 1..nparts : rects[i].BotLeft.Y = box.bot.Y /\ rects[i].TopRight.Y = box.top.Y

\* C11: every edge of the graph GraphFromRect returns has its source and its
\* target in the rect.
C11_EdgesInsideRect ==
    sub # Nil =>
        \A e \in sub.edges : InRect(rectIn, [ID |-> e[1]]) /\ InRect(rectIn, [ID |-> e[2]])

\* The result has an edge, and an input edge with one endpoint outside the
\* rect was left out.
C11_Witness ==
    /\ sub # Nil
    /\ sub.edges # {}
    /\ \E i \in 1..Len(rawEdges) :
          /\ InRect(rectIn, [ID |-> rawEdges[i][1]])
          /\ ~InRect(rectIn, [ID |-> rawEdges[i][2]])
          /\ rawEdges[i] \notin sub.edges

\* C16: the returned graph has the directed edge s -> t exactly when (s, t) is
\* in the edge list and s and t are members of the rect.
C16_EdgeIffListedAndInside ==
    sub # Nil =>
        \A s, t \in PVertexIds :
            HasEdge(sub, s, t) <=>
                /\ InSeq(rawEdges, <<s, t>>)
                /\ InRect(rectIn, [ID |-> s]) /\ InRect(rectIn, [ID |-> t])

\* The vertices of the partitioner's graph with an incident edge.
Endpoints ==
    {pgraph.vertices[k] : k \in {j \in PVertexIds : \E e \in pgraph.edges : j = e[1] \/ j = e[2]}}

\* v lies in the closed x-interval of rects[i] and in the y-range of the box.
InsideStrip(v, i) ==
    /\ rects[i].BotLeft.X <= v.X /\ v.X <= rects[i].TopRight.X
    /\ rootBox.bot.Y <= v.Y /\ v.Y <= rootBox.top.Y

RECURSIVE NonZeroEdgesOf(_)
NonZeroEdgesOf(es) ==
    IF es = <<>> THEN <<>>
    ELSE IF graph[Head(es)] # 0 THEN <<Head(es)>> \o NonZeroEdgesOf(Tail(es))
    ELSE NonZeroEdgesOf(Tail(es))

NonZeroEdges(v) == NonZeroEdgesOf(PathEdges(vehicles[v].Path))

\* The edges whose lengths the back entry of the ledger holds: the last edge,
\* and after merges the edges merged into it.
BackOwners(v) ==
    {NonZeroEdges(v)[i] : i \in Len(vehicles[v].PathLength)..Len(NonZeroEdges(v))}

\* C14: the back entry that a step reads and reduces, merges or pops belongs
\* to the CurrentEdge the step resolved.
C14_RemainingIsOfCurrentEdge ==
    [][\A v \in VehicleIds :
          (~vehicles[v].IsParked /\ Step(v) /\ ticks'[v] = ticks[v] + 1 /\ ~panicked') =>
              vehicles'[v].CurrentEdge \in BackOwners(v)]_vars

\* C15: the resolved CurrentEdge is the edge that made the front ledger
\* entry, the first edge of the path with a non-zero length.
C15_CurrentEdgeIsFirstNonZeroEdge ==
    \A v \in VehicleIds :
        vehicles[v].CurrentEdge # Nil =>
            /\ NonZeroEdges(v) # <<>>
            /\ vehicles[v].CurrentEdge = NonZeroEdges(v)[1]
            /\ graph[vehicles[v].CurrentEdge] # 0

\* C17: every ledger entry is strictly positive.
C17_LedgerEntriesPositive ==
    \A v \in VehicleIds :
        \A i \in 1..Len(vehicles[v].PathLength) : vehicles[v].PathLength[i] > 0

\* A vehicle whose path has a zero-length edge, dropped from its ledger at
\* construction, has driven on (Case C) and still has ledger entries.
C17_Witness ==
    \E v \in VehicleIds :
        /\ Len(NonZeroEdges(v)) < Len(vehicles[v].Path) - 1
        /\ lastCase[v] = "C" /\ vehicles[v].PathLength # <<>>

\* C18: under a caller that keeps ticking it, every vehicle with a non-empty
\* ledger is eventually parked.
C18_EventuallyParked ==
    \A v \in VehicleIds : (vehicles[v].PathLength # <<>>) ~> vehicles[v].IsParked

\* C19: between steps, a vehicle that has driven and is not parked is in the
\* queue of its CurrentEdge.
C19_DrivingVehicleInItsQueue ==
    \A v \in VehicleIds :
        (lastCase[v] \in {"A", "C"} /\ ~vehicles[v].IsParked) =>
            InQueue(vehicles[v].CurrentEdge, v)

\* C20: a vehicle on a single-vertex path is never parked, and its Step()
\* ends in the panic with every queue unchanged.
C20_SingleVertexPathPanics ==
    /\ [](\A v \in VehicleIds :
            Len(vehicles[v].Path) = 1 =>
                /\ ~vehicles[v].IsParked
                /\ ticks[v] >= 1 => (panicked /\ lastCase[v] = "panic"))
    /\ [][\A v \in VehicleIds :
            (Len(vehicles[v].Path) = 1 /\ Step(v) /\ ticks'[v] = ticks[v] + 1) =>
                (panicked' /\ ~vehicles'[v].IsParked /\ Q' = Q)]_vars

\* Step() has been called on a vehicle on a single-vertex path.
C20_Witness ==
    \E v \in VehicleIds : Len(vehicles[v].Path) = 1 /\ ticks[v] = 1 /\ panicked

====
